---- MODULE Spec2Model ----
(***************************************************************************)
(* Model of the image push workflow of nix-sample:                         *)
(*   scripts/push-image.sh   (login, artifact check, copy, inspect)        *)
(*   scripts/print-digest.sh (inspect)                                     *)
(*   the per-app "image" task of README.md (nix build, then push-image.sh  *)
(*   with standard output redirected to .image-digest)                     *)
(* together with the environment the scripts act on: the 'result' build    *)
(* artifact in the working directory, the registry, and other clients      *)
(* pushing to the same registry.                                           *)
(*                                                                         *)
(* The status lines the scripts echo start with an emoji and a space in    *)
(* the source; the strings here carry the text after it.                   *)
(***************************************************************************)
EXTENDS Integers, Sequences, FiniteSets, TLC

(* ------------------------------------------------------------------ *)
(* Bounds of the model                                                 *)
(* ------------------------------------------------------------------ *)

\* how many times another client pushes to the target image during a run
MaxOtherPushes == 1

\* how many manual `nix build .#image-<app>` happen before the script runs
MaxBuilds == 1

\* how many requests clients send to the demo API
MaxRequests == 2

\* how far the clock of the demo API advances, in milliseconds
MaxClock == 1

(* ------------------------------------------------------------------ *)
(* Shell values                                                        *)
(* ------------------------------------------------------------------ *)

\* a shell parameter is unset, or set to a string (possibly empty)
Unset == [set |-> FALSE, val |-> ""]
Val(s) == [set |-> TRUE, val |-> s]

\* ${X-default}, without the colon: the default only when X is unset
DefaultExpandUnsetOnly(x, default) == IF x.set THEN x.val ELSE default

\* ${X:-default}: the default when X is unset or empty
DefaultExpand(x, default) == IF x.set /\ x.val # "" THEN x.val ELSE default

\* ${1?message}, without the colon: fails only when $1 is unset
RequiredOkUnsetOnly(x) == x.set

\* ${1:?message}: fails when $1 is unset or empty
RequiredOk(x) == x.set /\ x.val # ""

\* [[ -n "${X:-}" ]]
NonEmpty(x) == x.set /\ x.val # ""

\* without pipefail: the status of a | b is the status of b
PipeStatusLast(left, right) == right

\* set -o pipefail: the status of a | b is the rightmost nonzero status
PipeStatus(left, right) == IF right # 0 THEN right ELSE left

Apps == {"web", "api"}

Arg1Values == {Unset, Val("")} \cup {Val(a) : a \in Apps}
RegistryValues == {Unset, Val(""), Val("r.io")}
TagValues == {Unset, Val(""), Val("v1")}
UserValues == {Unset, Val(""), Val("user")}
PasswordValues == {Unset, Val(""), Val("secret")}

\* exit statuses an external tool may return
ToolStatuses == {0, 1, 2}

\* what skopeo login / skopeo copy write to the script's standard output
ToolStdout == {<< >>, <<"(skopeo output)">>}

(* ------------------------------------------------------------------ *)
(* The 'result' artifact, images and the registry                      *)
(* ------------------------------------------------------------------ *)

NoFile == [kind |-> "none", image |-> ""]
Directory == [kind |-> "dir", image |-> ""]
RegularFile(img) == [kind |-> "file", image |-> img]

\* [[ -e result ]]: any kind of file, a directory included
ExistsFile(f) == f.kind # "none"

\* [[ -f result ]]
IsRegularFile(f) == f.kind = "file"

\* the docker-archive that `nix build .#image-<app>` leaves as ./result
BuiltImage(app) == "nix-sample-" \o app \o ".tar.gz"

\* an image some other client pushes
OtherImage == "other-client-image"

\* an image pushed before the run
OldImage == "old-image"

NoImage == ""

\* the content digest the registry reports for an image (computed by the
\* registry tooling, not by this repository): one digest per content
DigestOf(img) == "sha256:" \o img

\* IMAGE="$REGISTRY/$APP:$TAG", without the repository prefix
MakeImageNoPrefix(registry_, app, tag) == registry_ \o "/" \o app \o ":" \o tag

\* IMAGE="$REGISTRY/nix-sample-$APP:$TAG"
MakeImage(registry_, app, tag) == registry_ \o "/nix-sample-" \o app \o ":" \o tag

DefaultRegistry == "ghcr.io/your-org"
DefaultTag == "latest"

AllRefs ==
  {MakeImage(r, a, t) : r \in {DefaultRegistry, "r.io"}, a \in Apps,
                        t \in {DefaultTag, "v1"}}

(* ------------------------------------------------------------------ *)
(* skopeo inspect | jq -r .Digest                                      *)
(* ------------------------------------------------------------------ *)

JsonNull == [type |-> "null", val |-> ""]
JsonString(s) == [type |-> "string", val |-> s]

\* what skopeo inspect writes to the pipe
NoOutput == [kind |-> "empty", Digest |-> JsonNull]
Garbage == [kind |-> "garbage", Digest |-> JsonNull]
Json(d) == [kind |-> "json", Digest |-> d]

\* the answers skopeo inspect can give for a reference: it fails (no image,
\* network, authentication) and writes nothing, or it succeeds and writes a
\* JSON document whose Digest is the digest of the image stored under the
\* reference; a document without a Digest field, with an empty Digest, or
\* output that is not JSON are the answers of a misbehaving registry or tool
InspectAnswers(stored) ==
  {[status |-> s, out |-> NoOutput] : s \in ToolStatuses \ {0}}
    \cup (IF stored = NoImage THEN {}
          ELSE {[status |-> 0, out |-> Json(JsonString(DigestOf(stored)))],
                [status |-> 0, out |-> Json(JsonNull)],
                [status |-> 0, out |-> Json(JsonString(""))],
                [status |-> 0, out |-> Garbage]})

\* jq -r .Digest on that output: a string is printed raw, a missing field is
\* null and printed as "null", empty input prints nothing, a parse error exits 2
Jq(out) ==
  CASE out.kind = "empty" -> [status |-> 0, lines |-> << >>]
    [] out.kind = "garbage" -> [status |-> 2, lines |-> << >>]
    [] out.kind = "json" ->
         [status |-> 0,
          lines |-> <<IF out.Digest.type = "null" THEN "null" ELSE out.Digest.val>>]

\* $(...) : the output with trailing newlines removed (one line at most here)
CommandSubst(lines) == IF lines = << >> THEN "" ELSE lines[1]

(* ------------------------------------------------------------------ *)
(* set -euo pipefail, and the login condition                          *)
(* ------------------------------------------------------------------ *)

\* without set -e: the script goes on after a failed command
ErrExitOff(status) == FALSE

\* set -e: the script exits when a command returns a nonzero status
ErrExit(status) == status # 0

\* [[ -n "${REGISTRY_USER:-}" || -n "${REGISTRY_PASSWORD:-}" ]]
HaveEitherCredential(user, password) == NonEmpty(user) \/ NonEmpty(password)

\* [[ -n "${REGISTRY_USER:-}" && -n "${REGISTRY_PASSWORD:-}" ]]
HaveCredentials(user, password) == NonEmpty(user) /\ NonEmpty(password)

(* ------------------------------------------------------------------ *)
(* State                                                               *)
(* ------------------------------------------------------------------ *)

VARIABLES
  arg1,         \* $1 of push-image.sh
  env,          \* REGISTRY, TAG, REGISTRY_USER, REGISTRY_PASSWORD as exported
  task,         \* the "image" task: "none" (script run by hand), "build",
                \* "push" (nix build succeeded), "failed" (nix build failed)
  result,       \* ./result in the working directory
  registry,     \* image reference -> image stored under it
  pc,           \* position of push-image.sh
  APP, REGISTRY, TAG, IMAGE, DIGEST,   \* the script's shell variables
  stdout,       \* lines written to the script's standard output
  exitStatus,   \* its exit status, meaningful once pc = "exited"
  calls,        \* external commands invoked, in order: command, arguments,
                \* standard input, the document skopeo inspect wrote to the
                \* pipe (NoOutput for the other commands), exit status
  steps,        \* login / check / copy / inspect steps taken, with outcome
  otherPushes,  \* pushes of other clients so far
  builds,       \* manual nix builds so far
  pdArg, pdPc, pdIMAGE, pdDIGEST, pdStdout, pdExit, pdCalls  \* print-digest.sh

VARIABLES
  apiEnv,       \* process.env of the demo API: NODE_ENV, PORT
  apiProc,      \* process.version, process.platform, process.arch
  apiState,     \* "stopped", "loaded" (module evaluated, listen requested),
                \* "listening" (listen callback ran), "exited"
  apiPort,      \* the port given to app.listen
  apiExit,      \* exit status of the process, meaningful once "exited"
  apiLog,       \* lines written with console.log
  apiMem,       \* what process.memoryUsage() returns now, in bytes
  clock,        \* the wall clock, milliseconds since the epoch
  apiRequests,  \* requests sent by clients, in order of sending
  apiPending,   \* indices of the requests not yet handled
  apiResponses  \* responses sent, in order, each with the index of its request

VARIABLES
  flakePwd,     \* PWD in the environment of the nix command
  flakeImpure,  \* whether nix evaluates with --impure
  flakeTarget,  \* the flake output being evaluated
  flakeEval     \* outcome of the evaluation

apiVars == <<apiEnv, apiProc, apiState, apiPort, apiExit, apiLog, apiMem, clock,
             apiRequests, apiPending, apiResponses>>
flakeVars == <<flakePwd, flakeImpure, flakeTarget, flakeEval>>
restVars == <<apiVars, flakeVars>>
scriptVars == <<arg1, env, pdArg, task, result, registry, otherPushes, builds,
                pc, APP, REGISTRY, TAG, IMAGE, DIGEST, stdout, exitStatus, calls, steps,
                pdPc, pdIMAGE, pdDIGEST, pdStdout, pdExit, pdCalls>>

pushVars == <<pc, APP, REGISTRY, TAG, IMAGE, DIGEST, stdout, exitStatus, calls, steps>>
pdVars == <<pdPc, pdIMAGE, pdDIGEST, pdStdout, pdExit, pdCalls>>
inputVars == <<arg1, env, pdArg>>
worldVars == <<task, result, registry, otherPushes, builds>>
vars == <<inputVars, worldVars, pushVars, pdVars, restVars>>

\* the image stored under a reference, NoImage when there is none
Stored(ref) == IF ref \in DOMAIN registry THEN registry[ref] ELSE NoImage

\* the registry after a push of img to ref
Store(ref, img) ==
  [r \in DOMAIN registry \cup {ref} |-> IF r = ref THEN img ELSE registry[r]]

EmptyRegistry == [r \in {} |-> NoImage]

\* the image print-digest.sh is asked about in the usage line of its header
UsageImage == MakeImage(DefaultRegistry, "web", DefaultTag)

(* values of the demo API and of the flake evaluation *)

\* JavaScript values: undefined, a string, a number (written as its numeral)
JsUndefined == [type |-> "undefined", val |-> ""]
JsStr(str) == [type |-> "string", val |-> str]
JsNum(numeral) == [type |-> "number", val |-> numeral]

\* process.memoryUsage(): rss, heapTotal, heapUsed in bytes
MemorySamples ==
  {[rss |-> 52953088, heapTotal |-> 7864320, heapUsed |-> 5767168],
   [rss |-> 1572864, heapTotal |-> 1048575, heapUsed |-> 524287]}

\* PWD of the nix command, as a sequence of characters
PwdUnset == [set |-> FALSE, val |-> << >>]
PwdVal(chars) == [set |-> TRUE, val |-> chars]

\* no evaluation of a flake output has been made
NotEvaluated == [state |-> "pending", root |-> << >>, message |-> ""]

\* the demo API process has not been started
ApiStopped ==
  /\ apiEnv = [NODE_ENV |-> Unset, PORT |-> Unset]
  /\ apiProc = [version |-> "v22.0.0", platform |-> "linux", arch |-> "x64"]
  /\ apiState = "stopped"
  /\ apiPort = JsUndefined
  /\ apiExit = 0
  /\ apiLog = << >>
  /\ apiMem = [rss |-> 52953088, heapTotal |-> 7864320, heapUsed |-> 5767168]
  /\ clock = 0
  /\ apiRequests = << >>
  /\ apiPending = {}
  /\ apiResponses = << >>

\* no nix command is evaluating the flake
FlakeIdle ==
  /\ flakePwd = PwdUnset
  /\ flakeImpure = FALSE
  /\ flakeTarget = "none"
  /\ flakeEval = NotEvaluated

Init ==
  /\ ApiStopped
  /\ FlakeIdle
  /\ arg1 \in Arg1Values
  /\ env \in [REGISTRY : RegistryValues, TAG : TagValues,
              REGISTRY_USER : UserValues, REGISTRY_PASSWORD : PasswordValues]
  /\ task \in {"none", "build"}
  \* the image task passes the app name itself
  /\ task = "build" => RequiredOk(arg1)
  /\ result \in {NoFile, Directory}
  /\ registry \in {EmptyRegistry, [r \in AllRefs |-> OldImage]}
  /\ pc = "start"
  /\ APP = "" /\ REGISTRY = "" /\ TAG = "" /\ IMAGE = "" /\ DIGEST = ""
  /\ stdout = << >>
  /\ exitStatus = 0
  /\ calls = << >>
  /\ steps = << >>
  /\ otherPushes = 0
  /\ builds = 0
  /\ pdArg \in {Unset, Val(""), Val(UsageImage)}
  /\ pdPc = "start"
  /\ pdIMAGE = "" /\ pdDIGEST = ""
  /\ pdStdout = << >>
  /\ pdExit = 0
  /\ pdCalls = << >>

(* ------------------------------------------------------------------ *)
(* The environment: builds and other clients                           *)
(* ------------------------------------------------------------------ *)

\* a manual `nix build .#image-<app>` before the script is run by hand:
\* it replaces ./result
NixBuild(app) ==
  /\ task = "none"
  /\ pc = "start"
  /\ builds < MaxBuilds
  /\ result' = RegularFile(BuiltImage(app))
  /\ builds' = builds + 1
  /\ UNCHANGED <<task, registry, otherPushes, inputVars, restVars, pushVars, pdVars>>

\* the image task, first half: nix build ../..#image-<app> && ...
\* when the build fails the script is not run
TaskBuild ==
  /\ task = "build"
  /\ \E ok \in BOOLEAN :
       IF ok
       THEN /\ result' = RegularFile(BuiltImage(arg1.val))
            /\ task' = "push"
       ELSE /\ result' = result
            /\ task' = "failed"
  /\ UNCHANGED <<registry, otherPushes, builds, inputVars, restVars, pushVars, pdVars>>

\* another client pushes its own image to the reference the script targets
OtherPush ==
  /\ pc \in {"banner", "auth", "check", "copy", "inspect", "print"}
  /\ otherPushes < MaxOtherPushes
  /\ registry' = Store(IMAGE, OtherImage)
  /\ otherPushes' = otherPushes + 1
  /\ UNCHANGED <<task, result, builds, inputVars, restVars, pushVars, pdVars>>

(* ------------------------------------------------------------------ *)
(* scripts/push-image.sh                                               *)
(* ------------------------------------------------------------------ *)

\* `command || exit 1`: every failure ends the script with status 1
ExitOne(status) == pc' = "exited" /\ exitStatus' = (IF status = 0 THEN 0 ELSE 1)

\* the script ends with the given status (under set -e: the status of the
\* command that failed)
Exit(status) == pc' = "exited" /\ exitStatus' = status

Echo(lines) == stdout' = stdout \o lines

Invoke(cs) == calls' = calls \o cs

Step(name, ok) == steps' = Append(steps, [step |-> name, ok |-> ok])

\* APP=${1:?...}; REGISTRY=${REGISTRY:-...}; TAG=${TAG:-...}; IMAGE=...
PushParse ==
  /\ pc = "start"
  /\ task \in {"none", "push"}
  /\ IF ~RequiredOk(arg1)
     THEN /\ Exit(1)
          /\ UNCHANGED <<APP, REGISTRY, TAG, IMAGE>>
     ELSE /\ APP' = arg1.val
          /\ REGISTRY' = DefaultExpand(env.REGISTRY, DefaultRegistry)
          /\ TAG' = DefaultExpand(env.TAG, DefaultTag)
          /\ IMAGE' = MakeImage(REGISTRY', APP', TAG')
          /\ pc' = "banner"
          /\ UNCHANGED exitStatus
  /\ UNCHANGED <<DIGEST, stdout, calls, steps, inputVars, restVars, worldVars, pdVars>>

\* the two echo lines after parsing
PushBanner ==
  /\ pc = "banner"
  /\ Echo(<<"Pushing image for app: " \o APP, "Target: " \o IMAGE>>)
  /\ pc' = "auth"
  /\ UNCHANGED <<APP, REGISTRY, TAG, IMAGE, DIGEST, exitStatus, calls, steps,
                 inputVars, restVars, worldVars, pdVars>>

\* ... | skopeo login ... || true: a failed login does not end the run
PushLoginIgnoreFailure ==
  /\ pc = "auth"
  /\ HaveCredentials(env.REGISTRY_USER, env.REGISTRY_PASSWORD)
  /\ \E status \in ToolStatuses, out \in ToolStdout :
       /\ Echo(<<"Authenticating with registry...">> \o out)
       /\ Invoke(<<[cmd |-> "skopeo login",
                    args |-> <<REGISTRY, "-u", env.REGISTRY_USER.val, "--password-stdin">>,
                    stdin |-> env.REGISTRY_PASSWORD.val,
                    out |-> NoOutput, status |-> status]>>)
       /\ Step("login", status = 0)
       /\ pc' = "check" /\ UNCHANGED exitStatus
  /\ UNCHANGED <<APP, REGISTRY, TAG, IMAGE, DIGEST, inputVars, restVars, worldVars, pdVars>>

\* echo "Authenticating with registry as $REGISTRY_USER:$REGISTRY_PASSWORD..."
PushLoginEchoPassword ==
  /\ pc = "auth"
  /\ HaveCredentials(env.REGISTRY_USER, env.REGISTRY_PASSWORD)
  /\ \E status \in ToolStatuses, out \in ToolStdout :
       /\ Echo(<<"Authenticating with registry as " \o env.REGISTRY_USER.val
                   \o ":" \o env.REGISTRY_PASSWORD.val \o "...">> \o out)
       /\ Invoke(<<[cmd |-> "skopeo login",
                    args |-> <<REGISTRY, "-u", env.REGISTRY_USER.val, "--password-stdin">>,
                    stdin |-> env.REGISTRY_PASSWORD.val,
                    out |-> NoOutput, status |-> status]>>)
       /\ Step("login", status = 0)
       /\ IF ErrExit(status)
          THEN Exit(status)
          ELSE pc' = "check" /\ UNCHANGED exitStatus
  /\ UNCHANGED <<APP, REGISTRY, TAG, IMAGE, DIGEST, inputVars, restVars, worldVars, pdVars>>

\* echo "$REGISTRY_PASSWORD" | skopeo login "$REGISTRY" -u "$REGISTRY_USER" --password-stdin
PushLogin ==
  /\ pc = "auth"
  /\ HaveCredentials(env.REGISTRY_USER, env.REGISTRY_PASSWORD)
  /\ \E status \in ToolStatuses, out \in ToolStdout :
       /\ Echo(<<"Authenticating with registry...">> \o out)
       /\ Invoke(<<[cmd |-> "skopeo login",
                    args |-> <<REGISTRY, "-u", env.REGISTRY_USER.val, "--password-stdin">>,
                    stdin |-> env.REGISTRY_PASSWORD.val,
                    out |-> NoOutput, status |-> status]>>)
       /\ Step("login", status = 0)
       /\ IF ErrExit(status)
          THEN Exit(status)
          ELSE pc' = "check" /\ UNCHANGED exitStatus
  /\ UNCHANGED <<APP, REGISTRY, TAG, IMAGE, DIGEST, inputVars, restVars, worldVars, pdVars>>

\* no credentials: the if body is skipped
PushSkipLogin ==
  /\ pc = "auth"
  /\ ~HaveCredentials(env.REGISTRY_USER, env.REGISTRY_PASSWORD)
  /\ pc' = "check"
  /\ UNCHANGED <<APP, REGISTRY, TAG, IMAGE, DIGEST, stdout, exitStatus, calls, steps,
                 inputVars, restVars, worldVars, pdVars>>

\* [[ -f result ]] || { echo ...; echo ...; exit 1; }
PushCheck ==
  /\ pc = "check"
  /\ IF IsRegularFile(result)
     THEN /\ Step("check", TRUE)
          /\ pc' = "copy"
          /\ UNCHANGED <<stdout, exitStatus>>
     ELSE /\ Step("check", FALSE)
          /\ Echo(<<"Error: 'result' file not found",
                    "Run 'nix build .#image-" \o APP \o "' first">>)
          /\ Exit(1)
  /\ UNCHANGED <<APP, REGISTRY, TAG, IMAGE, DIGEST, calls, inputVars, restVars, worldVars, pdVars>>

\* skopeo copy wrapped in a retry: a failed copy is attempted a second time
PushCopyRetry ==
  /\ pc = "copy"
  /\ \E first \in ToolStatuses, second \in ToolStatuses, out \in ToolStdout :
       LET status == IF first = 0 THEN 0 ELSE second
           call(st) == [cmd |-> "skopeo copy",
                        args |-> <<"--dest-compress", "docker-archive:result",
                                   "docker://" \o IMAGE>>,
                        stdin |-> "", out |-> NoOutput, status |-> st]
       IN /\ status = 0 => IsRegularFile(result)
          /\ Invoke(IF first = 0 THEN <<call(first)>> ELSE <<call(first), call(second)>>)
          /\ Step("copy", status = 0)
          /\ registry' = IF status = 0 THEN Store(IMAGE, result.image) ELSE registry
          /\ IF ErrExit(status)
             THEN /\ Echo(<<"Pushing image to registry...">> \o out)
                  /\ Exit(status)
             ELSE /\ Echo(<<"Pushing image to registry...">> \o out
                          \o <<"Image pushed successfully!">>)
                  /\ pc' = "inspect"
                  /\ UNCHANGED exitStatus
  /\ UNCHANGED <<APP, REGISTRY, TAG, IMAGE, DIGEST, task, result, otherPushes, builds,
                 inputVars, restVars, pdVars>>

\* skopeo copy --dest-compress docker-archive:result docker://"$IMAGE"
\* it can succeed only when result is an archive; on success the registry
\* stores the image under IMAGE
PushCopy ==
  /\ pc = "copy"
  /\ \E status \in ToolStatuses, out \in ToolStdout :
       /\ status = 0 => IsRegularFile(result)
       /\ Invoke(<<[cmd |-> "skopeo copy",
                    args |-> <<"--dest-compress", "docker-archive:result",
                               "docker://" \o IMAGE>>,
                    stdin |-> "",
                    out |-> NoOutput, status |-> status]>>)
       /\ Step("copy", status = 0)
       /\ registry' = IF status = 0 THEN Store(IMAGE, result.image) ELSE registry
       /\ IF ErrExit(status)
          THEN /\ Echo(<<"Pushing image to registry...">> \o out)
               /\ Exit(status)
          ELSE /\ Echo(<<"Pushing image to registry...">> \o out
                       \o <<"Image pushed successfully!">>)
               /\ pc' = "inspect"
               /\ UNCHANGED exitStatus
  /\ UNCHANGED <<APP, REGISTRY, TAG, IMAGE, DIGEST, task, result, otherPushes, builds,
                 inputVars, restVars, pdVars>>

\* DIGEST=$(skopeo inspect docker://"$IMAGE" | jq -r .Digest)
PushInspect ==
  /\ pc = "inspect"
  /\ \E ans \in InspectAnswers(Stored(IMAGE)) :
       LET j == Jq(ans.out)
           status == PipeStatus(ans.status, j.status)
       IN /\ Echo(<<"Fetching image digest...">>)
          /\ Invoke(<<[cmd |-> "skopeo inspect", args |-> <<"docker://" \o IMAGE>>,
                       stdin |-> "", out |-> ans.out, status |-> ans.status],
                      [cmd |-> "jq", args |-> <<"-r", ".Digest">>,
                       stdin |-> ans.out.kind, out |-> NoOutput, status |-> j.status]>>)
          /\ Step("inspect", status = 0)
          /\ IF ErrExit(status)
             THEN Exit(status) /\ UNCHANGED DIGEST
             ELSE /\ DIGEST' = CommandSubst(j.lines)
                  /\ pc' = "print"
                  /\ UNCHANGED exitStatus
  /\ UNCHANGED <<APP, REGISTRY, TAG, IMAGE, inputVars, restVars, worldVars, pdVars>>

\* echo "Digest: $DIGEST"; echo "$DIGEST"; the script ends with status 0
PushPrint ==
  /\ pc = "print"
  /\ Echo(<<"Digest: " \o DIGEST, DIGEST>>)
  /\ Exit(0)
  /\ UNCHANGED <<APP, REGISTRY, TAG, IMAGE, DIGEST, calls, steps,
                 inputVars, restVars, worldVars, pdVars>>

\* the standard output of a whole run of push-image.sh, lines 24-66 read as a
\* function of its inputs (argument, environment, ./result) and of what the
\* external tools return: t.login and t.copy are exit statuses, t.loginOut
\* and t.copyOut what the two commands write to standard output, t.inspect
\* the status and document of skopeo inspect
PushOutput(arg, e, res, t) ==
  IF ~RequiredOk(arg)
  THEN << >>
  ELSE
    LET image == MakeImage(DefaultExpand(e.REGISTRY, DefaultRegistry), arg.val,
                           DefaultExpand(e.TAG, DefaultTag))
        login == HaveCredentials(e.REGISTRY_USER, e.REGISTRY_PASSWORD)
        banner == <<"Pushing image for app: " \o arg.val, "Target: " \o image>>
        auth == IF login THEN <<"Authenticating with registry...">> \o t.loginOut
                ELSE << >>
        j == Jq(t.inspect.out)
    IN IF login /\ ErrExit(t.login)
       THEN banner \o auth
       ELSE IF ~IsRegularFile(res)
       THEN banner \o auth \o <<"Error: 'result' file not found",
                                 "Run 'nix build .#image-" \o arg.val \o "' first">>
       ELSE IF ErrExit(t.copy)
       THEN banner \o auth \o <<"Pushing image to registry...">> \o t.copyOut
       ELSE IF ErrExit(PipeStatus(t.inspect.status, j.status))
       THEN banner \o auth \o <<"Pushing image to registry...">> \o t.copyOut
              \o <<"Image pushed successfully!", "Fetching image digest...">>
       ELSE banner \o auth \o <<"Pushing image to registry...">> \o t.copyOut
              \o <<"Image pushed successfully!", "Fetching image digest...",
                   "Digest: " \o CommandSubst(j.lines), CommandSubst(j.lines)>>

\* what the image task's `> .image-digest` leaves in the file: the script's
\* whole standard output, once the script has been started by the task
ImageDigestFile ==
  IF task = "push" /\ pc # "start"
  THEN [exists |-> TRUE, lines |-> stdout]
  ELSE [exists |-> FALSE, lines |-> << >>]

(* ------------------------------------------------------------------ *)
(* scripts/print-digest.sh                                             *)
(* ------------------------------------------------------------------ *)

PdExit(status) == pdPc' = "exited" /\ pdExit' = status

\* IMAGE=${1:?...}; echo "Fetching digest for: $IMAGE"
PdParse ==
  /\ pdPc = "start"
  /\ IF ~RequiredOk(pdArg)
     THEN /\ PdExit(1)
          /\ UNCHANGED <<pdIMAGE, pdStdout>>
     ELSE /\ pdIMAGE' = pdArg.val
          /\ pdStdout' = pdStdout \o <<"Fetching digest for: " \o pdIMAGE'>>
          /\ pdPc' = "inspect"
          /\ UNCHANGED pdExit
  /\ UNCHANGED <<pdDIGEST, pdCalls, inputVars, restVars, worldVars, pushVars>>

\* DIGEST=$(skopeo inspect docker://"$IMAGE" | jq -r .Digest)
PdInspect ==
  /\ pdPc = "inspect"
  /\ \E ans \in InspectAnswers(Stored(pdIMAGE)) :
       LET j == Jq(ans.out)
           status == PipeStatus(ans.status, j.status)
       IN /\ pdCalls' = pdCalls \o
                 <<[cmd |-> "skopeo inspect", args |-> <<"docker://" \o pdIMAGE>>,
                    stdin |-> "", out |-> ans.out, status |-> ans.status],
                   [cmd |-> "jq", args |-> <<"-r", ".Digest">>,
                    stdin |-> ans.out.kind, out |-> NoOutput, status |-> j.status]>>
          /\ IF ErrExit(status)
             THEN PdExit(status) /\ UNCHANGED pdDIGEST
             ELSE /\ pdDIGEST' = CommandSubst(j.lines)
                  /\ pdPc' = "print"
                  /\ UNCHANGED pdExit
  /\ UNCHANGED <<pdIMAGE, pdStdout, inputVars, restVars, worldVars, pushVars>>

\* echo "$DIGEST": the digest without the label
PdPrintBare ==
  /\ pdPc = "print"
  /\ pdStdout' = pdStdout \o <<pdDIGEST>>
  /\ PdExit(0)
  /\ UNCHANGED <<pdIMAGE, pdDIGEST, pdCalls, inputVars, restVars, worldVars, pushVars>>

\* echo "Digest: $DIGEST"; the script ends with status 0
PdPrint ==
  /\ pdPc = "print"
  /\ pdStdout' = pdStdout \o <<"Digest: " \o pdDIGEST>>
  /\ PdExit(0)
  /\ UNCHANGED <<pdIMAGE, pdDIGEST, pdCalls, inputVars, restVars, worldVars, pushVars>>

(* ------------------------------------------------------------------ *)
(* Specification                                                       *)
(* ------------------------------------------------------------------ *)

Next ==
  \/ \E app \in Apps : NixBuild(app)
  \/ TaskBuild
  \/ OtherPush
  \/ PushParse
  \/ PushBanner
  \/ PushLogin
  \/ PushSkipLogin
  \/ PushCheck
  \/ PushCopy
  \/ PushInspect
  \/ PushPrint
  \/ PdParse
  \/ PdInspect
  \/ PdPrint

Spec == Init /\ [][Next]_vars

(* ------------------------------------------------------------------ *)
(* apps/api/src/index.ts                                               *)
(* ------------------------------------------------------------------ *)

\* process.env.X: undefined when X is not in the environment
EnvLookup(x) == IF x.set THEN JsStr(x.val) ELSE JsUndefined

\* a ?? b: b only when a is undefined
JsNullish(a, b) == IF a.type = "undefined" THEN b ELSE a

\* a || b: b when a is undefined or the empty string
JsOr(a, b) == IF a.type = "undefined" \/ (a.type = "string" /\ a.val = "") THEN b ELSE a

\* const PORT = process.env.PORT || 3001
PORT == JsOr(EnvLookup(apiEnv.PORT), JsNum("3001"))

\* process.env.NODE_ENV ?? 'development'
EnvironmentNullish ==
  (IF apiEnv.NODE_ENV.set THEN JsStr(apiEnv.NODE_ENV.val) ELSE JsStr("development")).val

\* process.env.NODE_ENV || 'development'
Environment == JsOr(EnvLookup(apiEnv.NODE_ENV), JsStr("development")).val

\* three decimal digits of a number below 1000
Pad3(n) == (IF n < 10 THEN "00" ELSE IF n < 100 THEN "0" ELSE "") \o ToString(n)

\* new Date(ms).toISOString(), for the first second after the epoch
ToISOString(ms) == "1970-01-01T00:00:00." \o Pad3(ms) \o "Z"

\* process.uptime(): seconds since the process started (at clock 0), with
\* the fraction in milliseconds
Uptime(ms) == [seconds |-> ms \div 1000, millis |-> ms % 1000]

\* `${Math.round(bytes / 1024 / 1024)}MB`
RoundedMB(bytes) == ToString((bytes + 524288) \div 1048576) \o "MB"

\* a timestamp computed once, when the module is loaded (clock 0)
HealthBodyCached(now) ==
  [status |-> "ok",
   timestamp |-> ToISOString(0),
   environment |-> Environment]

\* the object the '/health' handler passes to res.json
HealthBody(now) ==
  [status |-> "ok",
   timestamp |-> ToISOString(now),
   environment |-> Environment]

\* a '/' handler that reports how many responses the server has sent
RootBodyCounting ==
  [name |-> "Nix + Turborepo Sample API",
   version |-> ToString(Len(apiResponses)),
   description |-> "API demonstrating Nix-based development and OCI image building",
   endpoints |-> [p \in {"/", "/health", "/api/info"} |->
                    CASE p = "/" -> "API information"
                      [] p = "/health" -> "Health check"
                      [] p = "/api/info" -> "Detailed system information"]]

\* the object the '/' handler passes to res.json
RootBody ==
  [name |-> "Nix + Turborepo Sample API",
   version |-> "1.0.0",
   description |-> "API demonstrating Nix-based development and OCI image building",
   endpoints |-> [p \in {"/", "/health", "/api/info"} |->
                    CASE p = "/" -> "API information"
                      [] p = "/health" -> "Health check"
                      [] p = "/api/info" -> "Detailed system information"]]

\* the object the '/api/info' handler passes to res.json
InfoBody(now) ==
  [node_version |-> apiProc.version,
   platform |-> apiProc.platform,
   arch |-> apiProc.arch,
   uptime |-> Uptime(now),
   memory |-> [rss |-> RoundedMB(apiMem.rss),
               heapTotal |-> RoundedMB(apiMem.heapTotal),
               heapUsed |-> RoundedMB(apiMem.heapUsed)],
   environment |-> Environment]

\* the registrations without app.get('/api/info', ...)
RoutesWithoutInfo == {"/health", "/"}

\* the paths registered with app.get
Routes == {"/health", "/", "/api/info"}

\* the requests clients send: method, path, and the body they carry with
\* Content-Type: application/json ("none", or "malformed": not well-formed JSON)
Requests ==
  {[method |-> "GET", path |-> p, body |-> "none"] :
     p \in {"/", "/health", "/api/info"}}
    \cup {[method |-> "GET", path |-> "/health", body |-> "malformed"],
          [method |-> "GET", path |-> "/missing", body |-> "none"],
          [method |-> "POST", path |-> "/health", body |-> "none"],
          [method |-> "OPTIONS", path |-> "/health", body |-> "none"]}

JsonResponse(body) == [status |-> 200, type |-> "json", body |-> body]
HtmlResponse(status, text) == [status |-> status, type |-> "html", body |-> [html |-> text]]
EmptyResponse(status) == [status |-> status, type |-> "none", body |-> [html |-> ""]]

\* the route handlers: app.get(path, handler) answers GET on its path;
\* anything else falls through to Express's 404
RouteResponse(req, now) ==
  IF req.method = "GET" /\ req.path \in Routes
  THEN CASE req.path = "/health" -> JsonResponse(HealthBody(now))
         [] req.path = "/" -> JsonResponse(RootBody)
         [] req.path = "/api/info" -> JsonResponse(InfoBody(now))
  ELSE HtmlResponse(404, "Cannot " \o req.method \o " " \o req.path)

\* app.use(express.json()): a body that is not well-formed JSON is refused
\* with 400 by Express's error handler, before any route
JsonMiddleware(req, now) ==
  IF req.body = "malformed"
  THEN HtmlResponse(400, "Bad Request")
  ELSE RouteResponse(req, now)

\* app.use(cors()): a preflight (OPTIONS) is answered 204 by the middleware,
\* every other request goes on
CorsMiddleware(req, now) ==
  IF req.method = "OPTIONS"
  THEN EmptyResponse(204)
  ELSE JsonMiddleware(req, now)

\* the module is evaluated: PORT is read, the middleware and routes are
\* registered, app.listen is called, the signal handlers are registered
ApiLoad ==
  /\ apiState = "stopped"
  /\ apiPort' = PORT
  /\ apiState' = "loaded"
  /\ UNCHANGED <<apiEnv, apiProc, apiExit, apiLog, apiMem, clock, apiRequests,
                 apiPending, apiResponses, flakeVars, scriptVars>>

\* the callback of app.listen: the server is listening
ApiListening ==
  /\ apiState = "loaded"
  /\ apiState' = "listening"
  /\ apiLog' = apiLog \o
       <<"",
         "API Server running on http://localhost:" \o apiPort.val,
         "",
         "Available endpoints:",
         "  - GET  /           API information",
         "  - GET  /health     Health check",
         "  - GET  /api/info   System information",
         "",
         "Environment: " \o Environment,
         "Node: " \o apiProc.version,
         "  ">>
  /\ UNCHANGED <<apiEnv, apiProc, apiPort, apiExit, apiMem, clock, apiRequests,
                 apiPending, apiResponses, flakeVars, scriptVars>>

\* app.listen fails (the port is in use): the 'error' event has no listener
\* and the process ends with status 1
ApiListenError ==
  /\ apiState = "loaded"
  /\ apiState' = "exited"
  /\ apiExit' = 1
  /\ UNCHANGED <<apiEnv, apiProc, apiPort, apiLog, apiMem, clock, apiRequests,
                 apiPending, apiResponses, flakeVars, scriptVars>>

\* process.on('SIGTERM' / 'SIGINT'): log, then process.exit(0)
ApiSignal(sig) ==
  /\ apiState \in {"loaded", "listening"}
  /\ apiLog' = Append(apiLog, sig \o " signal received: closing HTTP server")
  /\ apiState' = "exited"
  /\ apiExit' = 0
  /\ UNCHANGED <<apiEnv, apiProc, apiPort, apiMem, clock, apiRequests,
                 apiPending, apiResponses, flakeVars, scriptVars>>

\* time passes
Tick ==
  /\ apiState \in {"loaded", "listening"}
  /\ clock < MaxClock
  /\ clock' = clock + 1
  /\ UNCHANGED <<apiEnv, apiProc, apiState, apiPort, apiExit, apiLog, apiMem,
                 apiRequests, apiPending, apiResponses, flakeVars, scriptVars>>

\* the memory use of the process changes
MemChange ==
  /\ apiState = "listening"
  /\ apiMem' \in MemorySamples \ {apiMem}
  /\ UNCHANGED <<apiEnv, apiProc, apiState, apiPort, apiExit, apiLog, clock,
                 apiRequests, apiPending, apiResponses, flakeVars, scriptVars>>

\* a client sends a request to the listening server
ApiSend(req) ==
  /\ apiState = "listening"
  /\ Len(apiRequests) < MaxRequests
  /\ apiRequests' = Append(apiRequests, req)
  /\ apiPending' = apiPending \cup {Len(apiRequests) + 1}
  /\ UNCHANGED <<apiEnv, apiProc, apiState, apiPort, apiExit, apiLog, apiMem, clock,
                 apiResponses, flakeVars, scriptVars>>

\* the server handles a pending request: the middleware, then the route
\* handler, which answers with res.json
ApiHandle(i) ==
  /\ apiState = "listening"
  /\ i \in apiPending
  /\ apiResponses' =
       Append(apiResponses,
              [req |-> i, res |-> CorsMiddleware(apiRequests[i], clock)])
  /\ apiPending' = apiPending \ {i}
  /\ UNCHANGED <<apiEnv, apiProc, apiState, apiPort, apiExit, apiLog, apiMem, clock,
                 apiRequests, flakeVars, scriptVars>>

\* the scripts are not run
ScriptsIdle ==
  /\ arg1 = Unset
  /\ env = [REGISTRY |-> Unset, TAG |-> Unset,
            REGISTRY_USER |-> Unset, REGISTRY_PASSWORD |-> Unset]
  /\ task = "none"
  /\ result = NoFile
  /\ registry = EmptyRegistry
  /\ pc = "start"
  /\ APP = "" /\ REGISTRY = "" /\ TAG = "" /\ IMAGE = "" /\ DIGEST = ""
  /\ stdout = << >>
  /\ exitStatus = 0
  /\ calls = << >>
  /\ steps = << >>
  /\ otherPushes = 0
  /\ builds = 0
  /\ pdArg = Unset
  /\ pdPc = "start"
  /\ pdIMAGE = "" /\ pdDIGEST = ""
  /\ pdStdout = << >>
  /\ pdExit = 0
  /\ pdCalls = << >>

ApiInit ==
  /\ ScriptsIdle
  /\ FlakeIdle
  /\ apiEnv \in [NODE_ENV : {Unset, Val(""), Val("production")},
                 PORT : {Unset, Val(""), Val("8080")}]
  /\ apiProc = [version |-> "v22.0.0", platform |-> "linux", arch |-> "x64"]
  /\ apiState = "stopped"
  /\ apiPort = JsUndefined
  /\ apiExit = 0
  /\ apiLog = << >>
  /\ apiMem = [rss |-> 52953088, heapTotal |-> 7864320, heapUsed |-> 5767168]
  /\ clock = 0
  /\ apiRequests = << >>
  /\ apiPending = {}
  /\ apiResponses = << >>

ApiNext ==
  \/ ApiLoad
  \/ ApiListening
  \/ ApiListenError
  \/ \E sig \in {"SIGTERM", "SIGINT"} : ApiSignal(sig)
  \/ Tick
  \/ MemChange
  \/ \E req \in Requests : ApiSend(req)
  \/ \E i \in 1..MaxRequests : ApiHandle(i)

SpecApi == ApiInit /\ [][ApiNext]_vars

(* ------------------------------------------------------------------ *)
(* flake.nix: repoRoot, devShells, packages                            *)
(* ------------------------------------------------------------------ *)

DevShells == {"devShells.default", "devShells.dev-web", "devShells.dev-api"}

Packages == {"packages.image-web", "packages.image-api", "packages.default"}

PwdValues ==
  {PwdUnset, PwdVal(<< >>), PwdVal(<<"/">>), PwdVal(<<"/", "r">>),
   PwdVal(<<"r">>), PwdVal(<<".", "/", "r">>), PwdVal(<<"r", "/">>),
   PwdVal(<<" ", "/", "r">>), PwdVal(<<"~", "/", "r">>)}

\* config.ExposedPorts of imageApi
ImageApiExposedPorts == {"3001/tcp"}

\* builtins.getEnv "PWD": the empty string when the variable is unset, and
\* always in pure evaluation (without --impure)
GetEnvPwd == IF flakeImpure /\ flakePwd.set THEN flakePwd.val ELSE << >>

\* lib.hasPrefix pre str
HasPrefix(pre, str) == Len(pre) <= Len(str) /\ SubSeq(str, 1, Len(pre)) = pre

\* the message of builtins.throw is written here with ' where the flake has
\* a backquote, which a TLA+ string cannot hold

\* repoRoot with only the pwd != "" test
RepoRootNonEmptyOnly(pwd) ==
  IF pwd # << >>
  THEN [state |-> "ok", root |-> pwd, message |-> ""]
  ELSE [state |-> "error", root |-> << >>,
        message |-> "Run with --impure or via direnv: 'use flake . --impure'"]

\* repoRoot = if (pwd != "" && lib.hasPrefix "/" pwd) then pwd else builtins.throw ...
RepoRoot(pwd) ==
  IF pwd # << >> /\ HasPrefix(<<"/">>, pwd)
  THEN [state |-> "ok", root |-> pwd, message |-> ""]
  ELSE [state |-> "error", root |-> << >>,
        message |-> "Run with --impure or via direnv: 'use flake . --impure'"]

\* evaluating an output: the dev shells set devenv.root = repoRoot, which
\* forces repoRoot; the packages never refer to it, and Nix, being lazy,
\* never evaluates it for them
EvalOutput(target, pwd) ==
  IF target \in DevShells
  THEN RepoRoot(pwd)
  ELSE [state |-> "ok", root |-> << >>, message |-> ""]

\* nix develop .#<shell> / nix build .#<package> evaluates the output
FlakeEvaluate ==
  /\ flakeTarget # "none"
  /\ flakeEval.state = "pending"
  /\ flakeEval' = EvalOutput(flakeTarget, GetEnvPwd)
  /\ UNCHANGED <<flakePwd, flakeImpure, flakeTarget, apiVars, scriptVars>>

FlakeInit ==
  /\ ScriptsIdle
  /\ ApiStopped
  /\ flakePwd \in PwdValues
  /\ flakeImpure \in BOOLEAN
  /\ flakeTarget \in DevShells \cup Packages
  /\ flakeEval = NotEvaluated

FlakeNext == FlakeEvaluate

SpecFlake == FlakeInit /\ [][FlakeNext]_vars

(* ------------------------------------------------------------------ *)
(* Vocabulary of the properties                                        *)
(* ------------------------------------------------------------------ *)

Last(s) == s[Len(s)]

Printed(line) == \E i \in DOMAIN stdout : stdout[i] = line

Invoked(cmd) == \E i \in DOMAIN calls : calls[i].cmd = cmd

Count(log, cmd) == Cardinality({i \in DOMAIN log : log[i].cmd = cmd})

StepTaken(name) == \E i \in DOMAIN steps : steps[i].step = name

StepFailed(name) == \E i \in DOMAIN steps : steps[i].step = name /\ ~steps[i].ok

Exited == pc = "exited"

Succeeded == pc = "exited" /\ exitStatus = 0

\* the run was given a non-empty app argument
AppGiven == arg1.set /\ arg1.val # ""

\* no regular file named 'result' in the working directory
NoArtifact == result.kind # "file"

\* REGISTRY_USER and REGISTRY_PASSWORD are both set to non-empty strings
CredentialsGiven ==
  /\ env.REGISTRY_USER.set /\ env.REGISTRY_USER.val # ""
  /\ env.REGISTRY_PASSWORD.set /\ env.REGISTRY_PASSWORD.val # ""

MissingArtifactError == "Error: 'result' file not found"

\* the inspect of this run returned a document with a Digest string d
InspectReturnedDigest(d) ==
  \E i \in DOMAIN calls :
    /\ calls[i].cmd = "skopeo inspect"
    /\ calls[i].status = 0
    /\ calls[i].out.kind = "json"
    /\ calls[i].out.Digest.type = "string"
    /\ calls[i].out.Digest.val = d

(* ------------------------------------------------------------------ *)
(* C1                                                                  *)
(* ------------------------------------------------------------------ *)

\* C1 as stated: every run with an app argument and no regular file 'result',
\* whatever the credentials and the registry's answers, exits nonzero and
\* prints the error message about the missing artifact.
C1_MissingArtifactAlwaysReported ==
  (Exited /\ AppGiven /\ NoArtifact)
    => (exitStatus # 0 /\ Printed(MissingArtifactError))

\* C1 amended: such a run always exits nonzero; it exits 1 and prints the
\* error message about the missing artifact unless a login was attempted and
\* failed, in which case the run ended at the login, before the artifact check.
C1_MissingArtifactReportedUnlessLoginFailed ==
  (Exited /\ AppGiven /\ NoArtifact)
    => /\ exitStatus # 0
       /\ StepFailed("login") \/ (exitStatus = 1 /\ Printed(MissingArtifactError))
       /\ StepFailed("login") => ~Printed(MissingArtifactError)

\* a run with credentials whose login succeeded and whose artifact is missing
C1_Witness ==
  /\ Exited /\ AppGiven /\ NoArtifact
  /\ Invoked("skopeo login")
  /\ Printed(MissingArtifactError)

(* ------------------------------------------------------------------ *)
(* C2                                                                  *)
(* ------------------------------------------------------------------ *)

\* C2: in every run that exits 0, the last line of standard output is exactly
\* the Digest value the registry inspect returned for the target image.
C2_LastLineIsReturnedDigest ==
  Succeeded => InspectReturnedDigest(Last(stdout))

(* ------------------------------------------------------------------ *)
(* C3                                                                  *)
(* ------------------------------------------------------------------ *)

\* C3: the script exits 0 if and only if every step it attempted succeeded:
\* argument parsing, login when attempted, the artifact check, skopeo copy,
\* and both sides of skopeo inspect | jq.
C3_ExitZeroIffEveryStepSucceeded ==
  Exited =>
    (exitStatus = 0 <=>
       /\ AppGiven
       /\ \A i \in DOMAIN calls : calls[i].status = 0
       /\ ~StepFailed("check"))

\* a run that logged in, copied, inspected and exited 0
C3_Witness ==
  /\ Succeeded
  /\ Invoked("skopeo login") /\ Invoked("skopeo copy") /\ Invoked("jq")

(* ------------------------------------------------------------------ *)
(* C4                                                                  *)
(* ------------------------------------------------------------------ *)

ExpectedSteps ==
  IF CredentialsGiven
  THEN <<"login", "check", "copy", "inspect">>
  ELSE <<"check", "copy", "inspect">>

StepCommands(name) ==
  CASE name = "login" -> <<"skopeo login">>
    [] name = "check" -> << >>
    [] name = "copy" -> <<"skopeo copy">>
    [] name = "inspect" -> <<"skopeo inspect", "jq">>

RECURSIVE CommandsOfSteps(_)
CommandsOfSteps(ss) ==
  IF ss = << >> THEN << >>
  ELSE StepCommands(ss[1].step) \o CommandsOfSteps(Tail(ss))

\* C4: the steps taken are an initial part of login (only with credentials),
\* artifact check, copy, inspect, in that order; every step before the last
\* one taken succeeded; a failed step ends the run; and the external commands
\* invoked are exactly those of the steps taken, so none follows a failure.
C4_FixedOrderFailFast ==
  /\ Len(steps) <= Len(ExpectedSteps)
  /\ \A i \in DOMAIN steps : steps[i].step = ExpectedSteps[i]
  /\ \A i \in DOMAIN steps : ~steps[i].ok => (i = Len(steps) /\ Exited)
  /\ [i \in DOMAIN calls |-> calls[i].cmd] = CommandsOfSteps(steps)

\* a run whose login and artifact check succeeded and whose copy failed
C4_Witness ==
  /\ Exited
  /\ Len(steps) = 3
  /\ steps[1].step = "login" /\ steps[3].step = "copy" /\ ~steps[3].ok
  /\ Len(calls) = 2

(* ------------------------------------------------------------------ *)
(* C5                                                                  *)
(* ------------------------------------------------------------------ *)

\* C5 as stated: a run in which the registry or the tag string of the
\* environment is empty stops at a validation, before login, the artifact
\* check, copy or inspect.
C5_EmptyRegistryOrTagStopsRun ==
  (env.REGISTRY.val = "" \/ env.TAG.val = "")
    => (steps = << >> /\ calls = << >>)

\* C5 amended: before login, the artifact check, copy or inspect the script
\* makes the registry and the tag non-empty by substituting the defaults
\* ghcr.io/your-org and latest for an unset or empty REGISTRY or TAG; such a
\* run does not stop there. The one validation is that of the app argument:
\* a run without it stops before any step, with a nonzero status.
C5_EmptyRegistryOrTagDefaulted ==
  /\ (pc # "start" /\ AppGiven) =>
       /\ REGISTRY = (IF env.REGISTRY.val = "" THEN "ghcr.io/your-org" ELSE env.REGISTRY.val)
       /\ TAG = (IF env.TAG.val = "" THEN "latest" ELSE env.TAG.val)
       /\ REGISTRY # "" /\ TAG # ""
       /\ Exited => steps # << >>
  /\ (Exited /\ ~AppGiven) => (steps = << >> /\ calls = << >> /\ exitStatus # 0)

\* a run with REGISTRY set to the empty string and TAG unset that took the
\* artifact check
C5_Witness ==
  /\ env.REGISTRY = Val("") /\ env.TAG = Unset
  /\ StepTaken("check")
  /\ REGISTRY = "ghcr.io/your-org" /\ TAG = "latest"

(* ------------------------------------------------------------------ *)
(* C6                                                                  *)
(* ------------------------------------------------------------------ *)

\* C6: in every successful run in which the inspect returned a digest, the
\* digest printed last is the digest of the image this run copied (the
\* image in ./result), also when another client pushed to the same reference
\* between the copy and the inspect.
C6_PrintedDigestIsOfOwnCopy ==
  (Succeeded /\ \E img \in {BuiltImage(a) : a \in Apps} \cup {OtherImage, OldImage} :
                  InspectReturnedDigest(DigestOf(img)))
    => Last(stdout) = DigestOf(result.image)

(* ------------------------------------------------------------------ *)
(* C7                                                                  *)
(* ------------------------------------------------------------------ *)

\* C7: after a successful image task (nix build, then push-image.sh <app>
\* > .image-digest) in which no other client pushed and the inspect returned
\* the digest of the pushed image, the content of .image-digest is that digest.
C7_ImageDigestFileHoldsDigest ==
  (task = "push" /\ Succeeded /\ otherPushes = 0
     /\ InspectReturnedDigest(DigestOf(result.image)))
    => (ImageDigestFile.exists /\ ImageDigestFile.lines = <<DigestOf(result.image)>>)

(* ------------------------------------------------------------------ *)
(* C8                                                                  *)
(* ------------------------------------------------------------------ *)

\* the status of the command that call i belongs to: for skopeo inspect | jq
\* the status of the pipeline, for the others the status of the call
CommandStatus(i) ==
  CASE calls[i].cmd = "skopeo inspect" ->
         IF calls[i + 1].status # 0 THEN calls[i + 1].status ELSE calls[i].status
    [] calls[i].cmd = "jq" ->
         IF calls[i].status # 0 THEN calls[i].status ELSE calls[i - 1].status
    [] OTHER -> calls[i].status

\* C8: when skopeo login, skopeo copy or the skopeo inspect | jq pipeline
\* returns a nonzero status, the script has exited and its exit status is
\* that command's status.
C8_ExitStatusIsCommandStatus ==
  \A i \in DOMAIN calls :
    calls[i].status # 0 => (Exited /\ exitStatus = CommandStatus(i))

\* a run in which skopeo inspect failed with status 2 while jq returned 0
C8_Witness ==
  /\ Exited /\ exitStatus = 2
  /\ calls # << >>
  /\ Last(calls).cmd = "jq" /\ Last(calls).status = 0
  /\ calls[Len(calls) - 1].status = 2

(* ------------------------------------------------------------------ *)
(* C9                                                                  *)
(* ------------------------------------------------------------------ *)

\* C9: in a run of push-image.sh each of skopeo login, skopeo copy and skopeo
\* inspect is invoked at most once, and in a run of print-digest.sh skopeo
\* inspect is invoked at most once.
C9_NoRetry ==
  /\ \A cmd \in {"skopeo login", "skopeo copy", "skopeo inspect"} :
       Count(calls, cmd) <= 1
  /\ Count(pdCalls, "skopeo inspect") <= 1

\* both scripts have ended; push-image.sh's copy failed after one invocation
\* and print-digest.sh's inspect failed after one invocation
C9_Witness ==
  /\ Exited /\ exitStatus # 0
  /\ Count(calls, "skopeo copy") = 1 /\ Last(calls).cmd = "skopeo copy"
  /\ pdPc = "exited" /\ pdExit # 0
  /\ Count(pdCalls, "skopeo inspect") = 1

(* ------------------------------------------------------------------ *)
(* C10                                                                 *)
(* ------------------------------------------------------------------ *)

\* C10: skopeo login is invoked only when REGISTRY_USER and REGISTRY_PASSWORD
\* are both non-empty, and every run that got past the login decision invoked
\* it exactly in that case; a run with either one unset or empty goes to the
\* artifact check, which is then its first step, without any login.
C10_LoginIffCredentials ==
  /\ Invoked("skopeo login") => CredentialsGiven
  /\ (pc \in {"check", "copy", "inspect", "print"} \/ (Exited /\ AppGiven))
       => (Invoked("skopeo login") <=> CredentialsGiven)
  /\ (~CredentialsGiven /\ steps # << >>) => steps[1].step = "check"
  /\ (~CredentialsGiven /\ Exited /\ AppGiven) => StepTaken("check")

\* a run with a user name but an empty password that took the artifact check
C10_Witness ==
  /\ env.REGISTRY_USER = Val("user") /\ env.REGISTRY_PASSWORD = Val("")
  /\ StepTaken("check")
  /\ ~Invoked("skopeo login")

(* ------------------------------------------------------------------ *)
(* C11                                                                 *)
(* ------------------------------------------------------------------ *)

\* the identifier C11 gives: REGISTRY/nix-sample-APP:TAG, with ghcr.io/your-org
\* and latest for an unset or empty REGISTRY or TAG
ClaimedImage ==
  (IF env.REGISTRY.val = "" THEN "ghcr.io/your-org" ELSE env.REGISTRY.val)
    \o "/nix-sample-" \o arg1.val \o ":"
    \o (IF env.TAG.val = "" THEN "latest" ELSE env.TAG.val)

\* C11: once the arguments are parsed IMAGE is REGISTRY/nix-sample-APP:TAG with
\* the defaults for an unset or empty REGISTRY or TAG, and skopeo copy and
\* skopeo inspect are both given docker://IMAGE.
C11_ImageIdentifier ==
  /\ (pc # "start" /\ AppGiven) => IMAGE = ClaimedImage
  /\ \A i \in DOMAIN calls :
       /\ calls[i].cmd = "skopeo copy" =>
            calls[i].args = <<"--dest-compress", "docker-archive:result",
                              "docker://" \o ClaimedImage>>
       /\ calls[i].cmd = "skopeo inspect" =>
            calls[i].args = <<"docker://" \o ClaimedImage>>

\* a run with REGISTRY unset and TAG empty that copied and inspected
C11_Witness ==
  /\ env.REGISTRY = Unset /\ env.TAG = Val("")
  /\ Invoked("skopeo copy") /\ Invoked("skopeo inspect")
  /\ IMAGE = "ghcr.io/your-org/nix-sample-" \o arg1.val \o ":latest"

(* ------------------------------------------------------------------ *)
(* C15                                                                 *)
(* ------------------------------------------------------------------ *)

\* C15: print-digest.sh with a non-empty image argument invokes skopeo inspect
\* on docker://<image>, piped to jq -r .Digest, and when the inspect returned
\* a Digest string d the script exits 0 with 'Digest: ' followed by d as its
\* last output line.
C15_PrintDigest ==
  /\ (pdArg.set /\ pdArg.val # "" /\ pdPc \in {"print", "exited"}) =>
       /\ Len(pdCalls) = 2
       /\ pdCalls[1].cmd = "skopeo inspect"
       /\ pdCalls[1].args = <<"docker://" \o pdArg.val>>
       /\ pdCalls[2].cmd = "jq"
       /\ pdCalls[2].args = <<"-r", ".Digest">>
  /\ (pdPc = "exited" /\ pdCalls # << >> /\ pdCalls[1].status = 0
        /\ pdCalls[1].out.kind = "json" /\ pdCalls[1].out.Digest.type = "string") =>
       /\ pdExit = 0
       /\ Last(pdStdout) = "Digest: " \o pdCalls[1].out.Digest.val

\* print-digest.sh has printed the digest of the image stored before the run
C15_Witness ==
  /\ pdPc = "exited" /\ pdExit = 0
  /\ pdStdout = <<"Fetching digest for: ghcr.io/your-org/nix-sample-web:latest",
                  "Digest: sha256:old-image">>

(* ------------------------------------------------------------------ *)
(* C17                                                                 *)
(* ------------------------------------------------------------------ *)

\* C17: whatever builds preceded the run, a successful skopeo copy of
\* push-image.sh <APP> uploads an image that was built for that same APP.
C17_UploadsImageOfSameApp ==
  \A i \in DOMAIN calls :
    (calls[i].cmd = "skopeo copy" /\ calls[i].status = 0)
      => result.image = "nix-sample-" \o arg1.val \o ".tar.gz"

(* ------------------------------------------------------------------ *)
(* C18                                                                 *)
(* ------------------------------------------------------------------ *)

\* C18: a run that failed at argument parsing, at login or at the artifact
\* check never invoked skopeo copy, and the registry holds no image that came
\* from ./result: every image in it was there before the run or was pushed
\* by another client.
C18_EarlyFailureLeavesRegistry ==
  (~AppGiven \/ StepFailed("login") \/ StepFailed("check")) =>
    /\ ~Invoked("skopeo copy")
    /\ \A r \in DOMAIN registry : registry[r] \in {"old-image", "other-client-image"}

\* a run with ./result in place whose login failed, the registry as it was
C18_Witness ==
  /\ Exited /\ StepFailed("login")
  /\ result.kind = "file"
  /\ registry = [r \in AllRefs |-> "old-image"]

(* ------------------------------------------------------------------ *)
(* C19                                                                 *)
(* ------------------------------------------------------------------ *)

CopySucceeded ==
  \E i \in DOMAIN calls : calls[i].cmd = "skopeo copy" /\ calls[i].status = 0

InspectFailed ==
  \E i \in DOMAIN calls :
    calls[i].cmd \in {"skopeo inspect", "jq"} /\ calls[i].status # 0

\* C19: when skopeo copy succeeded and skopeo inspect or jq failed, the run
\* has exited nonzero, the success line is printed, nothing was printed after
\* 'Fetching image digest...' (no digest line), and the pushed image is still
\* stored under IMAGE unless another client pushed over it.
C19_InspectFailureAfterCopy ==
  (CopySucceeded /\ InspectFailed) =>
    /\ Exited /\ exitStatus # 0
    /\ Printed("Image pushed successfully!")
    /\ Last(stdout) = "Fetching image digest..."
    /\ DIGEST = ""
    /\ otherPushes = 0 => (IMAGE \in DOMAIN registry /\ registry[IMAGE] = result.image)

\* the copy succeeded, skopeo inspect failed with 1 while jq returned 0
C19_Witness ==
  /\ Exited /\ exitStatus = 1
  /\ CopySucceeded
  /\ Last(calls).cmd = "jq" /\ Last(calls).status = 0
  /\ otherPushes = 0 /\ registry[IMAGE] = result.image

(* ------------------------------------------------------------------ *)
(* C20                                                                 *)
(* ------------------------------------------------------------------ *)

\* C20: a run in which the inspect output has no Digest field (jq prints
\* null) or an empty Digest does not end with exit status 0.
C20_ExitZeroOnlyWithRealDigest ==
  Succeeded =>
    ~ \E i \in DOMAIN calls :
        /\ calls[i].cmd = "skopeo inspect"
        /\ calls[i].out.kind = "json"
        /\ \/ calls[i].out.Digest.type = "null"
           \/ calls[i].out.Digest.val = ""

(* ------------------------------------------------------------------ *)
(* C12                                                                 *)
(* ------------------------------------------------------------------ *)

\* response k answers a GET request to one of the three routes
AnswersGetOfRoute(k) ==
  /\ apiRequests[apiResponses[k].req].method = "GET"
  /\ apiRequests[apiResponses[k].req].path \in {"/", "/health", "/api/info"}

\* response k is a JSON object with the keys documented for its route
HasDocumentedKeys(k) ==
  LET path == apiRequests[apiResponses[k].req].path
      res == apiResponses[k].res
  IN /\ res.type = "json"
     /\ path = "/" =>
          DOMAIN res.body = {"name", "version", "description", "endpoints"}
     /\ path = "/health" =>
          /\ DOMAIN res.body = {"status", "timestamp", "environment"}
          /\ res.body.status = "ok"
     /\ path = "/api/info" =>
          /\ DOMAIN res.body = {"node_version", "platform", "arch", "uptime",
                                "memory", "environment"}
          /\ DOMAIN res.body.memory = {"rss", "heapTotal", "heapUsed"}

\* C12: every GET request to '/', '/health' or '/api/info' is
\* answered with a JSON object that has the documented keys.
C12_EveryGetAnsweredWithDocumentedKeys ==
  \A k \in DOMAIN apiResponses : AnswersGetOfRoute(k) => HasDocumentedKeys(k)

(* ------------------------------------------------------------------ *)
(* C13                                                                 *)
(* ------------------------------------------------------------------ *)

\* response k is the 200 answer of the '/' handler
IsRootAnswer(k) ==
  /\ apiRequests[apiResponses[k].req].method = "GET"
  /\ apiRequests[apiResponses[k].req].path = "/"
  /\ apiResponses[k].res.status = 200

\* every answer of '/' is the same object, and every request has one
\* response once it is handled and none before
RootAnswersAgreeOneResponseEach ==
  /\ \A j, k \in DOMAIN apiResponses :
       (IsRootAnswer(j) /\ IsRootAnswer(k)) => apiResponses[j].res = apiResponses[k].res
  /\ \A k \in DOMAIN apiResponses :
       IsRootAnswer(k) =>
         /\ apiResponses[k].res.body.name = "Nix + Turborepo Sample API"
         /\ apiResponses[k].res.body.version = "1.0.0"
  /\ \A i \in DOMAIN apiRequests :
       Cardinality({k \in DOMAIN apiResponses : apiResponses[k].req = i})
         = (IF i \in apiPending THEN 0 ELSE 1)

\* C13: handling a request changes no server variable (environment, process
\* data, state, port, log), only the responses; the answer of GET '/' is the
\* same whatever was requested before or in between; and every handled
\* request has exactly one response.
C13_HandlersKeepNoState ==
  [][/\ apiResponses' # apiResponses =>
          UNCHANGED <<apiEnv, apiProc, apiState, apiPort, apiExit, apiLog, apiMem, clock>>
     /\ RootAnswersAgreeOneResponseEach']_vars

\* '/' was answered twice, the second time after the clock and the memory
\* use had changed
C13_Witness ==
  /\ Len(apiResponses) = 2
  /\ IsRootAnswer(1) /\ IsRootAnswer(2)
  /\ clock = 1
  /\ apiMem.rss = 1572864

(* ------------------------------------------------------------------ *)
(* C14                                                                 *)
(* ------------------------------------------------------------------ *)

\* response k is the 200 answer of the '/health' handler
IsHealthAnswer(rs, k) ==
  /\ apiRequests[rs[k].req].method = "GET"
  /\ apiRequests[rs[k].req].path = "/health"
  /\ rs[k].res.status = 200

\* the clock value an ISO timestamp stands for
ClockOfTimestamp(ts) == CHOOSE ms \in 0..MaxClock : ToISOString(ms) = ts

\* C14: the timestamp of every '/health' answer is the clock value read
\* while the request is handled, so over the health answers of a run the
\* timestamps never go back.
C14_TimestampIsRequestTime ==
  [][\A k \in DOMAIN apiResponses' :
       (k > Len(apiResponses) /\ IsHealthAnswer(apiResponses', k)) =>
         /\ apiResponses'[k].res.body.timestamp = ToISOString(clock)
         /\ \A j \in 1..(k - 1) :
              IsHealthAnswer(apiResponses', j) =>
                ClockOfTimestamp(apiResponses'[j].res.body.timestamp)
                  <= ClockOfTimestamp(apiResponses'[k].res.body.timestamp)]_vars

\* two health answers, the first at clock 0 and the second at clock 1
C14_Witness ==
  /\ Len(apiResponses) = 2
  /\ IsHealthAnswer(apiResponses, 1) /\ IsHealthAnswer(apiResponses, 2)
  /\ apiResponses[1].res.body.timestamp = "1970-01-01T00:00:00.000Z"
  /\ apiResponses[2].res.body.timestamp = "1970-01-01T00:00:00.001Z"

(* ------------------------------------------------------------------ *)
(* C16                                                                 *)
(* ------------------------------------------------------------------ *)

\* the value the flake gets for PWD: that of the environment under --impure,
\* the empty string in pure evaluation or when PWD is unset
PwdSeen == IF flakeImpure /\ flakePwd.set THEN flakePwd.val ELSE << >>

\* C16: evaluating one of the three dev shells fails with the 'Run with
\* --impure or via direnv' error whenever the PWD value the flake gets is
\* empty or does not begin with '/', and otherwise has PWD as devenv.root;
\* evaluating image-web or image-api succeeds whatever PWD is.
C16_DevShellsNeedAbsolutePwd ==
  flakeEval.state # "pending" =>
    /\ flakeTarget \in {"devShells.default", "devShells.dev-web", "devShells.dev-api"} =>
         IF PwdSeen = << >> \/ PwdSeen[1] # "/"
         THEN /\ flakeEval.state = "error"
              /\ flakeEval.message = "Run with --impure or via direnv: 'use flake . --impure'"
         ELSE /\ flakeEval.state = "ok"
              /\ flakeEval.root = PwdSeen
    /\ flakeTarget \in {"packages.image-web", "packages.image-api"} =>
         /\ flakeEval.state = "ok"
         /\ flakeEval.root = << >>

\* dev-api evaluated under --impure with a relative PWD: the error
C16_Witness ==
  /\ flakeTarget = "devShells.dev-api"
  /\ flakeImpure /\ flakePwd = PwdVal(<<"r", "/">>)
  /\ flakeEval.state = "error"

(* ------------------------------------------------------------------ *)
(* C21                                                                 *)
(* ------------------------------------------------------------------ *)

\* C21: when the positional argument of push-image.sh or print-digest.sh is
\* missing or empty, the script writes nothing to standard output, invokes
\* no external command, and once it has run it has exited nonzero.
C21_MissingArgumentStopsBeforeAnyOutput ==
  /\ (~arg1.set \/ arg1.val = "") =>
       /\ stdout = << >>
       /\ calls = << >>
       /\ pc # "start" => (pc = "exited" /\ exitStatus # 0)
  /\ (~pdArg.set \/ pdArg.val = "") =>
       /\ pdStdout = << >>
       /\ pdCalls = << >>
       /\ pdPc # "start" => (pdPc = "exited" /\ pdExit # 0)

\* both scripts were run, push-image.sh with an empty argument and
\* print-digest.sh without one, and both have exited
C21_Witness ==
  /\ arg1 = Val("") /\ pc = "exited"
  /\ pdArg = Unset /\ pdPc = "exited"

(* ------------------------------------------------------------------ *)
(* C22                                                                 *)
(* ------------------------------------------------------------------ *)

\* C22: when skopeo inspect fails inside print-digest.sh, the script has
\* exited nonzero and its standard output is the 'Fetching digest for' line
\* alone, with no 'Digest:' line, whatever status jq returned.
C22_PrintDigestInspectFailure ==
  (\E i \in DOMAIN pdCalls :
     pdCalls[i].cmd = "skopeo inspect" /\ pdCalls[i].status # 0) =>
    /\ pdPc = "exited"
    /\ pdExit # 0
    /\ pdStdout = <<"Fetching digest for: " \o pdArg.val>>

\* skopeo inspect failed with status 2 while jq exited 0 on the empty input
C22_Witness ==
  /\ Len(pdCalls) = 2
  /\ pdCalls[1].cmd = "skopeo inspect" /\ pdCalls[1].status = 2
  /\ pdCalls[2].cmd = "jq" /\ pdCalls[2].status = 0
  /\ pdPc = "exited"

(* ------------------------------------------------------------------ *)
(* C23                                                                 *)
(* ------------------------------------------------------------------ *)

\* the exit status the run got from a command, 0 when it did not call it
StatusOf(cmd) ==
  IF \E i \in DOMAIN calls : calls[i].cmd = cmd
  THEN calls[CHOOSE i \in DOMAIN calls : calls[i].cmd = cmd].status
  ELSE 0

\* the document skopeo inspect wrote in the run, none when it was not called
InspectOut ==
  IF \E i \in DOMAIN calls : calls[i].cmd = "skopeo inspect"
  THEN calls[CHOOSE i \in DOMAIN calls : calls[i].cmd = "skopeo inspect"].out
  ELSE [kind |-> "empty", Digest |-> [type |-> "null", val |-> ""]]

\* the results the external tools gave in the finished run: the statuses and
\* the inspect document as logged, and the standard output of skopeo login
\* and skopeo copy that accounts for what the run printed
ToolResults ==
  {t \in [login : {StatusOf("skopeo login")},
          loginOut : {<< >>, <<"(skopeo output)">>},
          copy : {StatusOf("skopeo copy")},
          copyOut : {<< >>, <<"(skopeo output)">>},
          inspect : {[status |-> StatusOf("skopeo inspect"), out |-> InspectOut]}] :
     PushOutput(arg1, env, result, t) = stdout}

\* the environment of the run with another value of REGISTRY_PASSWORD
WithPassword(p) == [env EXCEPT !.REGISTRY_PASSWORD = p]

\* no command got the password as an argument
PasswordNotAnArgument ==
  \A i \in DOMAIN calls : \A k \in DOMAIN calls[i].args :
    env.REGISTRY_PASSWORD.val # "" => calls[i].args[k] # env.REGISTRY_PASSWORD.val

\* C23: the password is never a command-line argument, and a run that
\* differs from a finished run only in the value of REGISTRY_PASSWORD (any
\* value: unset, empty or another password), the tools returning the same
\* results, prints the same output.
C23_PasswordNeverInfluencesOutput ==
  pc = "exited" =>
    /\ PasswordNotAnArgument
    /\ ToolResults # {}
    /\ \A t \in ToolResults :
         \A p \in {[set |-> FALSE, val |-> ""], [set |-> TRUE, val |-> ""],
                   [set |-> TRUE, val |-> "secret"], [set |-> TRUE, val |-> "hunter2"]} :
           PushOutput(arg1, WithPassword(p), result, t) = stdout

\* C23 amended: the password is never a command-line argument, and a run
\* that differs from a finished run only in the value of a non-empty
\* REGISTRY_PASSWORD (another non-empty value), or only in an absent password
\* being unset or empty, prints the same output when the tools return the same
\* results.
C23_PasswordValueNeverInfluencesOutput ==
  pc = "exited" =>
    /\ PasswordNotAnArgument
    /\ ToolResults # {}
    /\ \A t \in ToolResults :
         \A p \in (IF env.REGISTRY_PASSWORD.set /\ env.REGISTRY_PASSWORD.val # ""
                   THEN {[set |-> TRUE, val |-> "secret"], [set |-> TRUE, val |-> "hunter2"]}
                   ELSE {[set |-> FALSE, val |-> ""], [set |-> TRUE, val |-> ""]}) :
           PushOutput(arg1, WithPassword(p), result, t) = stdout

\* a run that logged in with the password and went on to print a digest
C23_Witness ==
  /\ pc = "exited" /\ exitStatus = 0
  /\ env.REGISTRY_PASSWORD = [set |-> TRUE, val |-> "secret"]
  /\ \E i \in DOMAIN calls :
       calls[i].cmd = "skopeo login" /\ calls[i].stdin = "secret"
  /\ Len(stdout) >= 8

(* ------------------------------------------------------------------ *)
(* C24                                                                 *)
(* ------------------------------------------------------------------ *)

\* the process ended in a signal handler
EndedBySignal ==
  /\ apiState = "exited"
  /\ apiLog # << >>
  /\ apiLog[Len(apiLog)] \in {"SIGTERM signal received: closing HTTP server",
                              "SIGINT signal received: closing HTTP server"}

\* C24: when the process has ended on SIGTERM or SIGINT, its exit status is
\* 0 and the HTTP server was closed first: every request it had accepted has
\* been answered, none is cut off.
C24_GracefulShutdown ==
  EndedBySignal => (apiExit = 0 /\ apiPending = {})

(* ------------------------------------------------------------------ *)
(* C25                                                                 *)
(* ------------------------------------------------------------------ *)

\* response k is the 200 answer to a GET of the path
IsAnswerOf(k, path) ==
  /\ apiRequests[apiResponses[k].req].method = "GET"
  /\ apiRequests[apiResponses[k].req].path = path
  /\ apiResponses[k].res.status = 200

\* C25: every answer of '/health' and of '/api/info' in a process reports
\* the same environment: NODE_ENV when it is set to a non-empty string,
\* 'development' otherwise.
C25_SameEnvironmentEverywhere ==
  \A k \in DOMAIN apiResponses :
    (IsAnswerOf(k, "/health") \/ IsAnswerOf(k, "/api/info")) =>
      apiResponses[k].res.body.environment =
        (IF apiEnv.NODE_ENV.set /\ apiEnv.NODE_ENV.val # ""
         THEN apiEnv.NODE_ENV.val
         ELSE "development")

\* with NODE_ENV set to the empty string, both routes answered 'development'
C25_Witness ==
  /\ apiEnv.NODE_ENV = [set |-> TRUE, val |-> ""]
  /\ \E j, k \in DOMAIN apiResponses :
       /\ IsAnswerOf(j, "/health") /\ IsAnswerOf(k, "/api/info")
       /\ apiResponses[j].res.body.environment = "development"
       /\ apiResponses[k].res.body.environment = "development"

(* ------------------------------------------------------------------ *)
(* C26                                                                 *)
(* ------------------------------------------------------------------ *)

\* C26: the endpoints map of every answer of GET '/' has exactly the keys
\* '/', '/health' and '/api/info', and a GET (without a malformed body) is
\* answered 200 exactly when its path is a key of that map, 404 otherwise.
C26_EndpointsAreTheRoutes ==
  \A j \in DOMAIN apiResponses :
    IsAnswerOf(j, "/") =>
      /\ DOMAIN apiResponses[j].res.body.endpoints = {"/", "/health", "/api/info"}
      /\ \A k \in DOMAIN apiResponses :
           (/\ apiRequests[apiResponses[k].req].method = "GET"
            /\ apiRequests[apiResponses[k].req].body = "none") =>
             IF apiRequests[apiResponses[k].req].path
                  \in DOMAIN apiResponses[j].res.body.endpoints
             THEN apiResponses[k].res.status = 200
             ELSE apiResponses[k].res.status = 404

\* '/' was answered with the map, and a GET of an unlisted path got 404
C26_Witness ==
  \E j, k \in DOMAIN apiResponses :
    /\ IsAnswerOf(j, "/")
    /\ apiRequests[apiResponses[k].req] =
         [method |-> "GET", path |-> "/missing", body |-> "none"]
    /\ apiResponses[k].res.status = 404

(* ------------------------------------------------------------------ *)
(* C27                                                                 *)
(* ------------------------------------------------------------------ *)

\* C27: the port given to app.listen is the value of PORT when it is set to
\* a non-empty string and the number 3001 otherwise, and in that case it is
\* the port the API image declares as exposed.
C27_ListenPort ==
  apiState # "stopped" =>
    IF apiEnv.PORT.set /\ apiEnv.PORT.val # ""
    THEN apiPort = [type |-> "string", val |-> apiEnv.PORT.val]
    ELSE /\ apiPort = [type |-> "number", val |-> "3001"]
         /\ (apiPort.val \o "/tcp") \in ImageApiExposedPorts

\* the server is listening on 3001 although PORT is set, to the empty string
C27_Witness ==
  /\ apiState = "listening"
  /\ apiEnv.PORT = [set |-> TRUE, val |-> ""]
  /\ apiPort.val = "3001"
  /\ \E i \in DOMAIN apiLog : apiLog[i] = "API Server running on http://localhost:3001"

====
